---- MODULE Spec2Model ----
(***************************************************************************)
(* A model of the SecureView single-page client.                           *)
(*   variant 2 (shop build):    src/src/App.jsx                            *)
(*   variant 1 (camera build):  src/unnamed/part_000                       *)
(* The state is the browser's localStorage, the React state of every      *)
(* mounted component, the asynchronous continuations that are waiting for  *)
(* a backend response, and the element tree the last render produced.      *)
(* One action is one event handler or one continuation run to its next     *)
(* await, followed by React's re-render.                                   *)
(***************************************************************************)
EXTENDS Integers, Sequences, FiniteSets, TLC

VARIABLES
  variant,   \* which build is deployed: 1 or 2
  storage,   \* localStorage: a function from the keys present to their text
  token,     \* useAuth: token state
  user,      \* useAuth: user state
  auth,      \* AuthScreen state: mode, loading, error
  tab,       \* Dashboard: tab state
  shop,      \* Shop state: products, loading
  items,     \* Cart: items state
  adm,       \* AdminPanel state: tab and the loaded lists
  net,       \* continuations awaiting a backend response, in issue order
  view,      \* the elements on screen after the last render
  last,      \* the handler or continuation that ran last, and what it alerted
  lines,     \* Cart pricing: the cart lines being priced
  sums,      \* Cart pricing: subtotal, tax and total as rendered
  dash,      \* list states of the other panels: variant 1 Dashboard (cameras,
             \* alerts, services, subscription) and Recordings (items);
             \* variant 2 Services (services) and Account (sub)
  ghost      \* history of the run, kept only when a specification asks for it

vars == <<variant, storage, token, user, auth, tab, shop, items, adm, net, view, last, lines, sums, dash, ghost>>

----------------------------------------------------------------------------
(* Bounds of the model *)

MaxQty == 2
MaxInFlight == 2
MaxOrders == 2

----------------------------------------------------------------------------
(* Values *)

NullUser == [name |-> "", role |-> ""]

Accounts == { [token |-> "tkA", user |-> [name |-> "ann", role |-> "admin"]],
              [token |-> "tkB", user |-> [name |-> "bob", role |-> "user"]] }

Products == {"p1", "p2"}

ListVals == { <<>>, <<"r1">> }

\* How a request settles: res.ok, a non-success status, or fetch rejects.
Outcomes == {"ok", "fail", "reject"}

\* The history of a run: how many times addToCart ran for each product
\* (track = "adds"); the bodies POSTed to /orders, and how many order and
\* payment requests got a success response (track = "orders"); the products
\* whose persisted line the last write of the Cart panel dropped
\* (track = "peer"); how the Shop load issued last stands ("pending",
\* "arrived", "rejected") and its response once arrived (track = "loads").
NoHistory(tr) ==
  [track |-> tr, adds |-> [p \in Products |-> 0], posted |-> <<>>, orders |-> 0, payments |-> 0,
   lost |-> {}, latest |-> [status |-> "pending", data |-> <<>>]]

----------------------------------------------------------------------------
(* localStorage and JSON text *)

lsGetItem(st, k, dflt) == IF k \in DOMAIN st THEN st[k] ELSE dflt

lsSetItem(st, k, v) == [x \in (DOMAIN st) \cup {k} |-> IF x = k THEN v ELSE st[x]]

lsRemoveItem(st, k) == [x \in (DOMAIN st) \ {k} |-> st[x]]

EmptyStorage == [x \in {} |-> ""]

\* JSON.stringify of a user object (or null): the text is a token sequence.
StringifyUser(u) == IF u = NullUser THEN <<"null">> ELSE <<"{", u.name, u.role, "}">>

\* JSON.parse of such a text.
ParseUser(s) == IF s = <<"null">> THEN NullUser ELSE [name |-> s[2], role |-> s[3]]

\* JSON.stringify of the cart array.
StringifyCart(a) == <<"[">> \o a \o <<"]">>

\* JSON.parse of the cart text.
ParseCart(s) == SubSeq(s, 2, Len(s) - 1)

\* JSON.parse(localStorage.getItem('cart') || '[]')
ReadCart(st) == ParseCart(lsGetItem(st, "cart", <<"[", "]">>))

----------------------------------------------------------------------------
(* useAuth: initial state read from localStorage *)

InitToken(st) == lsGetItem(st, "token", "")

InitUser(st) == IF "user" \in DOMAIN st THEN ParseUser(st["user"]) ELSE NullUser

\* login / register: localStorage.setItem('token', ...); setItem('user', ...)
SaveSessionTokenOnly(st, data) == lsSetItem(st, "token", data.token)

SaveSession(st, data) ==
  lsSetItem(lsSetItem(st, "token", data.token), "user", StringifyUser(data.user))

\* logout: localStorage.removeItem('token'); removeItem('user')
ClearSessionAll(st) == EmptyStorage

ClearSessionTokenOnly(st) == lsRemoveItem(st, "token")

ClearSession(st) == lsRemoveItem(lsRemoveItem(st, "token"), "user")

----------------------------------------------------------------------------
(* Rendering *)

IsAdmin(u) == u.role = "admin"

FirstTab(v) == IF v = 1 THEN "live" ELSE "shop"

Tabs(v) == IF v = 1 THEN {"live", "recordings", "alerts", "services", "account"}
                    ELSE {"shop", "cart", "services", "account", "admin"}

FirstAdminTab(v) == IF v = 1 THEN "users" ELSE "products"

AdminTabs(v) == IF v = 1 THEN {"users", "cameras", "services", "alerts"}
                         ELSE {"products", "orders", "customers", "services"}

NoLists == [users |-> <<>>, products |-> <<>>, orders |-> <<>>, svcs |-> <<>>]

FreshAdmin(v) == [tab |-> FirstAdminTab(v), lists |-> NoLists]

FreshAuth == [mode |-> "login", loading |-> FALSE, error |-> ""]

\* useState of Shop: products, q, category, loading.
FreshShop == [products |-> <<>>, loading |-> FALSE, q |-> "", category |-> ""]

\* useState([]) of cameras, alerts, services and Recordings' items;
\* useState(null) of the subscription (<<>> stands for null).
FreshDash == [cameras |-> <<>>, alerts |-> <<>>, services |-> <<>>, sub |-> <<>>, recordings |-> <<>>]

\* Whether the AdminPanel component is mounted.
AdminMounted(v, tk, t) == tk # "" /\ (v = 1 \/ t = "admin")

AuthScreenView(a) ==
  {"AuthScreen"}
    \cup (IF a.error # "" THEN {a.error} ELSE {})
    \cup (IF a.loading THEN {"Please wait..."} ELSE {"Submit"})

AdminPanelBody(v, a) ==
  {"AdminTabs"} \cup
       (IF v = 1
        THEN (IF a.tab = "alerts" THEN {"Send Alert"} ELSE {})
        ELSE CASE a.tab = "products" ->
                    {"Create"} \cup (IF a.lists.products = <<>> THEN {"No products yet."} ELSE {"Delete"})
               [] a.tab = "orders" ->
                    (IF a.lists.orders = <<>> THEN {"No orders yet."} ELSE {"UpdateOrderStatus"})
               [] a.tab = "customers" ->
                    (IF a.lists.users = <<>> THEN {"No customers yet."} ELSE {})
               [] OTHER ->
                    (IF a.lists.svcs = <<>> THEN {"No service requests."} ELSE {}))

AdminPanelViewUngated(v, u, a) == AdminPanelBody(v, a)

AdminPanelView(v, u, a) == IF ~IsAdmin(u) THEN {"AdminNotice"} ELSE AdminPanelBody(v, a)

ShopView(s) ==
  {"Filter"}
    \cup (IF s.loading THEN {"Loading..."} ELSE {})
    \cup (IF s.products # <<>> THEN {"Add to cart"} ELSE {})
    \cup (IF s.products = <<>> /\ ~s.loading THEN {"No products found."} ELSE {})

CartView(it) ==
  (IF it = <<>> THEN {"Your cart is empty."} ELSE {"-", "+", "Remove", "Place order"})

\* Variant 1: the tab body of Dashboard (Recordings is the recordings tab).
TabView(t, d) ==
  CASE t = "live" ->
         (IF d.cameras = <<>> THEN {"No cameras yet. Add one to view live feeds."} ELSE {"CameraFeed"})
    [] t = "recordings" ->
         (IF d.recordings = <<>> THEN {"No recordings found."} ELSE {"Recording"})
    [] t = "alerts" ->
         (IF d.alerts = <<>> THEN {"No alerts yet."} ELSE {"Alert"})
    [] t = "services" ->
         {"Book service"} \cup (IF d.services = <<>> THEN {} ELSE {"ServiceRow"})
    [] OTHER -> {"Pay $19.99"}

\* Variant 2: Services.
ServicesView(d) ==
  {"Book installation"} \cup
  (IF d.services = <<>> THEN {"No service bookings yet."} ELSE {"ServiceRow"})

\* Variant 2: Account.
AccountView(d) == {"ChangePlan"}

DashboardView(v, u, t, s, it, a, d) ==
  {"Dashboard", "Logout"} \cup
  (IF v = 1
   THEN TabView(t, d) \cup {"Add"} \cup AdminPanelView(v, u, a)
   ELSE CASE t = "shop" -> ShopView(s)
          [] t = "cart" -> CartView(it)
          [] t = "services" -> ServicesView(d)
          [] t = "account" -> AccountView(d)
          [] OTHER -> AdminPanelView(v, u, a))

AppViewUngated(v, tk, u, au, t, s, it, a, d) == DashboardView(v, u, t, s, it, a, d)

\* App: the root component.
AppView(v, tk, u, au, t, s, it, a, d) ==
  IF tk = "" THEN AuthScreenView(au) ELSE DashboardView(v, u, t, s, it, a, d)

Render == view' = AppView(variant', token', user', auth', tab', shop', items', adm', dash')

\* The texts the list views show in place of an empty list.
Placeholders ==
  { "No cameras yet. Add one to view live feeds.", "No recordings found.", "No alerts yet.",
    "No service bookings yet.", "No products found.", "Your cart is empty.",
    "No products yet.", "No orders yet.", "No customers yet.", "No service requests." }

AdminControls == {"Create", "Delete", "UpdateOrderStatus", "Send Alert", "AdminTabs"}

----------------------------------------------------------------------------
(* JavaScript numbers.  A number is an IEEE 754 double, modelled exactly:   *)
(* [m, e] stands for m * 2^e, with m a natural number of at most 53 bits    *)
(* kept as a sequence of limbs (least significant first, no leading zero    *)
(* limb) and made odd, so that equal numbers are equal records.  Only       *)
(* finite non-negative numbers of normal exponent occur.                    *)

Base == 2^15

Mantissa == 52 + 1

RECURSIVE BNat(_)
BNat(n) == IF n = 0 THEN <<>> ELSE <<n % Base>> \o BNat(n \div Base)

RECURSIVE BInt(_)
BInt(a) == IF a = <<>> THEN 0 ELSE Head(a) + Base * BInt(Tail(a))

RECURSIVE BTrim(_)
BTrim(a) == IF a = <<>> THEN <<>>
            ELSE IF a[Len(a)] = 0 THEN BTrim(SubSeq(a, 1, Len(a) - 1)) ELSE a

RECURSIVE BAddC(_, _, _)
BAddC(a, b, c) ==
  IF a = <<>> /\ b = <<>> THEN BNat(c)
  ELSE LET x == (IF a = <<>> THEN 0 ELSE Head(a)) + (IF b = <<>> THEN 0 ELSE Head(b)) + c
       IN  <<x % Base>> \o BAddC(IF a = <<>> THEN a ELSE Tail(a),
                                 IF b = <<>> THEN b ELSE Tail(b), x \div Base)

BAdd(a, b) == BAddC(a, b, 0)

RECURSIVE BMulC(_, _, _)
BMulC(a, k, c) ==
  IF a = <<>> THEN BNat(c)
  ELSE LET x == Head(a) * k + c IN <<x % Base>> \o BMulC(Tail(a), k, x \div Base)

\* a * k for a limb-sized k
BMulS(a, k) == BTrim(BMulC(a, k, 0))

RECURSIVE BMulR(_, _)
BMulR(a, b) == IF b = <<>> THEN <<>>
               ELSE BAdd(BMulC(a, Head(b), 0), <<0>> \o BMulR(a, Tail(b)))

BMul(a, b) == BTrim(BMulR(a, b))

\* quotient and remainder of a by a limb-sized d
RECURSIVE BDivR(_, _)
BDivR(a, d) ==
  IF a = <<>> THEN [q |-> <<>>, r |-> 0]
  ELSE LET hi == BDivR(Tail(a), d)
           x  == Base * hi.r + Head(a)
       IN  [q |-> <<x \div d>> \o hi.q, r |-> x % d]

BDivS(a, d) == LET qr == BDivR(a, d) IN [q |-> BTrim(qr.q), r |-> qr.r]

Zeros(n) == [i \in 1..n |-> 0]

\* a * 2^k
BShl(a, k) == IF a = <<>> THEN <<>> ELSE Zeros(k \div 15) \o BMulS(a, 2^(k % 15))

\* floor(a / 2^k)
BShr(a, k) == IF k \div 15 >= Len(a) THEN <<>>
              ELSE BDivS(SubSeq(a, (k \div 15) + 1, Len(a)), 2^(k % 15)).q

BOdd(a) == a # <<>> /\ a[1] % 2 = 1

RECURSIVE IntBits(_)
IntBits(n) == IF n = 0 THEN 0 ELSE 1 + IntBits(n \div 2)

BitLen(a) == IF a = <<>> THEN 0 ELSE 15 * (Len(a) - 1) + IntBits(a[Len(a)])

RECURSIVE IntZeros(_)
IntZeros(n) == IF n % 2 = 1 THEN 0 ELSE 1 + IntZeros(n \div 2)

RECURSIVE BZeros(_)
BZeros(a) == IF Head(a) = 0 THEN 15 + BZeros(Tail(a)) ELSE IntZeros(Head(a))

DZero == [m |-> <<>>, e |-> 0]

\* m * 2^e in its one representation
Canon(m, e) == IF m = <<>> THEN DZero ELSE [m |-> BShr(m, BZeros(m)), e |-> e + BZeros(m)]

\* The double nearest to m * 2^e (plus, with sticky, a fraction of the last
\* unit of m): round to nearest, ties to even.
RoundDbl(m, e, sticky) ==
  IF BitLen(m) <= Mantissa THEN Canon(m, e)
  ELSE LET s    == BitLen(m) - Mantissa
           q    == BShr(m, s)
           r2   == BShr(m, s - 1)
           rest == sticky \/ BShl(r2, s - 1) # m
           up   == BOdd(r2) /\ (rest \/ BOdd(q))
       IN  Canon(IF up THEN BAdd(q, <<1>>) ELSE q, e + s)

Min(a, b) == IF a <= b THEN a ELSE b

\* x * y
DMul(x, y) == RoundDbl(BMul(x.m, y.m), x.e + y.e, FALSE)

\* x + y
DAdd(x, y) ==
  LET e == Min(x.e, y.e)
  IN  RoundDbl(BAdd(BShl(x.m, x.e - e), BShl(y.m, y.e - e)), e, FALSE)

\* The number of an integer (a cart quantity)
DInt(n) == Canon(BNat(n), 0)

\* x.toFixed(2): the digits, as the integer n of the text "n/100": the n for
\* which n/100 - x is closest to zero, the larger n of two.
ToFixed2(x) ==
  IF x.e >= 0 THEN BInt(BShl(BMulS(x.m, 100), x.e))
  ELSE BInt(BShr(BAdd(BMulS(x.m, 200), BShl(<<1>>, -x.e)), 1 - x.e))

\* The number of a decimal text with two decimals, n/100 (the unary plus on
\* toFixed's text; a price in a JSON body): the nearest double.
ParseDecimal2(n) ==
  IF n = 0 THEN DZero
  ELSE LET d == BDivS(BShl(BNat(n), 64), 100) IN RoundDbl(d.q, -64, d.r # 0)

\* The literal 0.07
TaxRate == ParseDecimal2(7)

----------------------------------------------------------------------------
(* Cart pricing *)

\* items.reduce((s,i) => s + i.price * i.qty, 0), over the first n lines
RECURSIVE Subtotal(_, _)
Subtotal(ls, n) ==
  IF n = 0 THEN DZero
  ELSE DAdd(Subtotal(ls, n - 1), DMul(ParseDecimal2(ls[n].price), DInt(ls[n].qty)))

\* floor(x * 100)
Floor2(x) == IF x.e >= 0 THEN BInt(BShl(BMulS(x.m, 100), x.e)) ELSE BInt(BShr(BMulS(x.m, 100), -x.e))

TaxTruncated(subtotal) == ParseDecimal2(Floor2(DMul(subtotal, TaxRate)))

\* tax = +(subtotal * 0.07).toFixed(2)
Tax(subtotal) == ParseDecimal2(ToFixed2(DMul(subtotal, TaxRate)))

\* total = +(subtotal + tax).toFixed(2)
Total(subtotal, tax) == ParseDecimal2(ToFixed2(DAdd(subtotal, tax)))

\* The order summary as rendered: subtotal.toFixed(2), tax.toFixed(2),
\* total.toFixed(2), each in hundredths.
CartSums(ls) ==
  LET subtotal == Subtotal(ls, Len(ls))
      tax      == Tax(subtotal)
      total    == Total(subtotal, tax)
  IN  [subtotal |-> ToFixed2(subtotal), tax |-> ToFixed2(tax), total |-> ToFixed2(total)]

----------------------------------------------------------------------------
(* Continuations awaiting a response *)

Req(op, live) == [op |-> op, live |-> live]

\* The step that ran last: the handler or continuation, its argument, the
\* text it alerted, and the requests it sent.
Last(op, arg, alert) == [op |-> op, arg |-> arg, alert |-> alert, sent |-> {}]

Sending(l, reqs) == [l EXCEPT !.sent = reqs]

Drop(s, i) == SubSeq(s, 1, i - 1) \o SubSeq(s, i + 1, Len(s))

\* The load routines that await Promise.all of several fetches.
GroupLoads == {"adminLoad", "dashLoad"}

\* The list states a grouped load sets, in the order it sets them.  The
\* AdminPanel of variant 1 keeps its cameras in the products slot.
GroupOf(op, v) ==
  IF op = "dashLoad" THEN << "cameras", "alerts", "services", "sub" >>
  ELSE IF v = 1 THEN << "users", "products", "svcs" >>
  ELSE << "users", "products", "orders", "svcs" >>

\* A grouped load: left of its fetches have not resolved yet; step is the
\* number of the list it sets next, so it has set step - 1 lists.  next is
\* what its caller does when the load returns ("alert": Dashboard.pay).
Load(op, live, v, next) ==
  [op |-> op, live |-> live, left |-> Len(GroupOf(op, v)), step |-> 1, next |-> next]

JoinedAtOnce(r) == TRUE

\* await Promise.all([...]): load goes on when every fetch has resolved.
Joined(r) == r.left = 0

\* The requests a continuation sends when it is started.
Endpoints(op, v) ==
  CASE op = "login" -> {"POST /auth/login"}
    [] op = "register" -> {"POST /auth/register"}
    [] op = "shopLoad" -> {"GET /products"}
    [] op = "servicesLoad" -> {"GET /services"}
    [] op = "accountLoad" -> {"GET /subscription"}
    [] op = "recLoad" -> {"GET /recordings"}
    [] op = "dashLoad" -> {"GET /cameras", "GET /alerts", "GET /services", "GET /subscription"}
    [] op = "adminLoad" ->
         (IF v = 1 THEN {"GET /admin/users", "GET /admin/cameras", "GET /admin/services"}
          ELSE {"GET /admin/users", "GET /products", "GET /admin/orders", "GET /admin/services"})
    [] op = "order" -> {"POST /orders"}
    [] op = "pay" -> {"POST /payments/checkout"}
    [] op = "dashPay" -> {"POST /payments/checkout"}
    [] op = "createService" -> {"POST /services"}
    [] op = "book" -> {"POST /services"}
    [] op = "addCamera" -> {"POST /cameras"}
    [] op = "changePlan" -> {"POST /subscription"}
    [] op = "createProduct" -> {"POST /admin/products"}
    [] op = "deleteProduct" -> {"DELETE /admin/products/:id"}
    [] op = "updateOrderStatus" -> {"PATCH /admin/orders/:id"}
    [] op = "sendAlert" -> {"POST /admin/alerts"}
    [] OTHER -> {}

EndpointsOf(reqs, v) == UNION { Endpoints(reqs[i].op, v) : i \in 1..Len(reqs) }

\* The handlers that change something at the backend and are not checkouts.
Mutations ==
  { "createService", "dashPay", "addCamera", "sendAlert",
    "book", "changePlan", "createProduct", "deleteProduct", "updateOrderStatus" }

\* Whether a continuation still does something once the components it
\* belongs to are unmounted: it sends requests, alerts or writes localStorage.
\* A load awaited by nobody only calls state setters, which React ignores
\* on an unmounted component.
OutlivesUnmount(r) ==
  \/ r.op \in {"order", "pay"}
  \/ r.op \in Mutations
  \/ (r.op \in GroupLoads /\ r.next # "")

\* The continuations that survive the unmount of the panels, cut off from
\* the instances that started them.
Unmounted(s) ==
  LET keep == SelectSeq(s, OutlivesUnmount)
  IN  [i \in 1..Len(keep) |-> [keep[i] EXCEPT !.live = FALSE]]

\* params of Shop.load: q and category are set only when not empty.
ShopParams(s) ==
  (IF s.q # "" THEN {<<"q", s.q>>} ELSE {})
    \cup (IF s.category # "" THEN {<<"category", s.category>>} ELSE {})

\* Shop.load at its await of fetch, called with the Shop state s.
ShopReq(live, s) == [op |-> "shopLoad", live |-> live, params |-> ShopParams(s)]

\* The effects run when the panel of tab t mounts: the panel loads.
\* In variant 1 only Recordings is mounted with its tab.
TabLoads(v, u, t) ==
  IF v = 1
  THEN (IF t = "recordings" THEN << Req("recLoad", TRUE) >> ELSE <<>>)
  ELSE CASE t = "shop" -> << ShopReq(TRUE, FreshShop) >>
         [] t = "services" -> << Req("servicesLoad", TRUE) >>
         [] t = "account" -> << Req("accountLoad", TRUE) >>
         [] t = "admin" /\ IsAdmin(u) -> << Load("adminLoad", TRUE, v, "") >>
         [] OTHER -> <<>>

\* The effects run when Dashboard mounts on tab t (children first): in
\* variant 1 AdminPanel and Dashboard itself load too.
MountLoads(v, u, t) ==
  TabLoads(v, u, t) \o
  (IF v = 1
   THEN (IF IsAdmin(u) THEN << Load("adminLoad", TRUE, v, "") >> ELSE <<>>)
          \o << Load("dashLoad", TRUE, v, "") >>
   ELSE <<>>)

MountShop(v, t) == IF v = 2 /\ t = "shop" THEN [FreshShop EXCEPT !.loading = TRUE] ELSE FreshShop

MountCart(v, t, st) == IF v = 2 /\ t = "cart" THEN ReadCart(st) ELSE <<>>

----------------------------------------------------------------------------
(* Initial states: the page is loaded on a client whose localStorage is st *)

Visit(v, st, tr) ==
  /\ variant = v
  /\ storage = st
  /\ token = InitToken(storage)
  /\ user = InitUser(storage)
  /\ auth = FreshAuth
  /\ tab = FirstTab(variant)
  /\ shop = IF token # "" THEN MountShop(variant, tab) ELSE FreshShop
  /\ items = <<>>
  /\ adm = FreshAdmin(variant)
  /\ dash = FreshDash
  /\ net = IF token # "" THEN MountLoads(variant, user, tab) ELSE <<>>
  /\ view = AppView(variant, token, user, auth, tab, shop, items, adm, dash)
  /\ last = Sending(Last("init", "", ""), EndpointsOf(net, variant))
  /\ lines = <<>>
  /\ sums = CartSums(lines)
  /\ ghost = NoHistory(tr)

\* A first visit: nothing is persisted.
Init == \E v \in {1, 2} : Visit(v, EmptyStorage, "none")

\* The storage a session of the account leaves for the next visit.
SessionOf(name) ==
  SaveSession(EmptyStorage, CHOOSE a \in Accounts : a.user.name = name)

----------------------------------------------------------------------------
(* AuthScreen and useAuth *)

ToggleMode ==
  /\ "AuthScreen" \in view
  /\ auth' = [auth EXCEPT !.mode = IF auth.mode = "login" THEN "register" ELSE "login"]
  /\ last' = Last("toggleMode", "", "")
  /\ UNCHANGED <<variant, storage, token, user, tab, shop, items, adm, net, lines, sums, dash, ghost>>
  /\ Render

\* AuthScreen.submit up to its await: the request of login or register is out.
Submit ==
  /\ "Submit" \in view
  /\ Len(net) < MaxInFlight
  /\ auth' = [auth EXCEPT !.error = "", !.loading = TRUE]
  /\ net' = Append(net, Req(auth.mode, TRUE))
  /\ last' = Sending(Last("submit", auth.mode, ""), Endpoints(auth.mode, variant))
  /\ UNCHANGED <<variant, storage, token, user, tab, shop, items, adm, lines, sums, dash, ghost>>
  /\ Render

\* login / register after a success response, then submit's finally.
AuthOk(i, data) ==
  /\ i \in 1..Len(net)
  /\ net[i].op \in {"login", "register"}
  /\ storage' = SaveSession(storage, data)
  /\ token' = data.token
  /\ user' = data.user
  /\ auth' = FreshAuth
  /\ tab' = FirstTab(variant)
  /\ shop' = MountShop(variant, tab')
  /\ items' = MountCart(variant, tab', storage')
  /\ adm' = FreshAdmin(variant)
  /\ dash' = FreshDash
  /\ net' = Drop(net, i) \o MountLoads(variant, user', tab')
  /\ last' = Sending(Last("authOk", net[i].op, ""), EndpointsOf(MountLoads(variant, user', tab'), variant))
  /\ UNCHANGED <<variant, lines, sums, ghost>>
  /\ Render

AuthMessageCopied(op) == "Invalid credentials"

AuthMessage(op) == IF op = "login" THEN "Invalid credentials" ELSE "Registration failed"

\* login / register after a non-success response: throws; submit catches.
AuthFail(i) ==
  /\ i \in 1..Len(net)
  /\ net[i].op \in {"login", "register"}
  /\ auth' = [auth EXCEPT !.error = AuthMessage(net[i].op), !.loading = FALSE]
  /\ net' = Drop(net, i)
  /\ last' = Last("authFail", net[i].op, "")
  /\ UNCHANGED <<variant, storage, token, user, tab, shop, items, adm, lines, sums, dash, ghost>>
  /\ Render

\* fetch itself rejects (no response): submit catches the TypeError.
AuthNetErr(i) ==
  /\ i \in 1..Len(net)
  /\ net[i].op \in {"login", "register"}
  /\ auth' = [auth EXCEPT !.error = "Failed to fetch", !.loading = FALSE]
  /\ net' = Drop(net, i)
  /\ last' = Last("authNetErr", net[i].op, "")
  /\ UNCHANGED <<variant, storage, token, user, tab, shop, items, adm, lines, sums, dash, ghost>>
  /\ Render

logout ==
  /\ "Logout" \in view
  /\ storage' = ClearSession(storage)
  /\ token' = ""
  /\ user' = NullUser
  /\ auth' = FreshAuth
  /\ tab' = FirstTab(variant)
  /\ shop' = FreshShop
  /\ items' = <<>>
  /\ adm' = FreshAdmin(variant)
  /\ dash' = FreshDash
  /\ net' = Unmounted(net)
  /\ last' = Last("logout", "", "")
  /\ UNCHANGED <<variant, lines, sums, ghost>>
  /\ Render

\* The page is loaded anew: every component is constructed again from
\* localStorage, and the continuations of the old page are gone.
Reload ==
  /\ token' = InitToken(storage)
  /\ user' = InitUser(storage)
  /\ auth' = FreshAuth
  /\ tab' = FirstTab(variant)
  /\ shop' = IF token' # "" THEN MountShop(variant, tab') ELSE FreshShop
  /\ items' = <<>>
  /\ adm' = FreshAdmin(variant)
  /\ dash' = FreshDash
  /\ net' = IF token' # "" THEN MountLoads(variant, user', tab') ELSE <<>>
  /\ last' = Sending(Last("reload", "", ""), EndpointsOf(net', variant))
  /\ UNCHANGED <<variant, storage, lines, sums, ghost>>
  /\ Render

----------------------------------------------------------------------------
(* Dashboard *)

\* The history once the continuations reqs are started: a Shop load among
\* them is now the load issued last, and has no response yet.
ShopLoadIssued(g, reqs) ==
  IF g.track = "loads" /\ \E k \in 1..Len(reqs) : reqs[k].op = "shopLoad"
  THEN [g EXCEPT !.latest = [status |-> "pending", data |-> <<>>]]
  ELSE g

SetTab(t) ==
  /\ "Dashboard" \in view
  /\ t \in Tabs(variant)
  /\ t # tab
  /\ tab' = t
  /\ IF variant = 1
     THEN /\ UNCHANGED <<shop, items, adm>>
          /\ dash' = [dash EXCEPT !.recordings = <<>>]
          /\ net' = SelectSeq(net, LAMBDA r : r.op # "recLoad") \o TabLoads(variant, user, t)
          /\ t = "recordings" => Len(net') <= MaxInFlight
     ELSE /\ shop' = MountShop(variant, t)
          /\ items' = MountCart(variant, t, storage)
          /\ adm' = FreshAdmin(variant)
          /\ dash' = FreshDash
          /\ net' = Unmounted(net) \o TabLoads(variant, user, t)
          /\ Len(net') <= MaxInFlight
  /\ last' = Sending(Last("setTab", t, ""), EndpointsOf(TabLoads(variant, user, t), variant))
  /\ ghost' = ShopLoadIssued(ghost, TabLoads(variant, user, t))
  /\ UNCHANGED <<variant, storage, token, user, auth, lines, sums>>
  /\ Render

----------------------------------------------------------------------------
(* Shop *)

\* The texts typed into the search box and the options of the select.
Queries == {"", "cam"}

Categories == {"", "camera"}

\* onChange of the search input: setQ(e.target.value).
setQ(text) ==
  /\ "Filter" \in view
  /\ text \in Queries
  /\ text # shop.q
  /\ shop' = [shop EXCEPT !.q = text]
  /\ last' = Last("setQ", text, "")
  /\ UNCHANGED <<variant, storage, token, user, auth, tab, items, adm, net, lines, sums, dash, ghost>>
  /\ Render

\* onChange of the select: setCategory(e.target.value).
setCategory(c) ==
  /\ "Filter" \in view
  /\ c \in Categories
  /\ c # shop.category
  /\ shop' = [shop EXCEPT !.category = c]
  /\ last' = Last("setCategory", c, "")
  /\ UNCHANGED <<variant, storage, token, user, auth, tab, items, adm, net, lines, sums, dash, ghost>>
  /\ Render

\* The Filter button: Shop.load up to its await of fetch.
\* setLoading(true); GET /products with the params of the current q, category.
ShopLoad ==
  /\ "Filter" \in view
  /\ Len(net) < MaxInFlight
  /\ shop' = [shop EXCEPT !.loading = TRUE]
  /\ net' = Append(net, ShopReq(TRUE, shop))
  /\ last' = Sending(Last("shopLoad", ShopParams(shop), ""), Endpoints("shopLoad", variant))
  /\ ghost' = ShopLoadIssued(ghost, << ShopReq(TRUE, shop) >>)
  /\ UNCHANGED <<variant, storage, token, user, auth, tab, items, adm, lines, sums, dash>>
  /\ Render

\* Whether the Shop load at position i of s is the one issued last: that
\* one is still pending, and it comes after every other Shop load in s
\* (continuations are kept in the order they were started).
IssuedLast(g, s, i) ==
  /\ g.latest.status = "pending"
  /\ \A j \in (i + 1)..Len(s) : s[j].op # "shopLoad"

\* Shop.load after its response: setProducts(data); setLoading(false).
ShopLoadDone(i, data) ==
  /\ i \in 1..Len(net)
  /\ net[i].op = "shopLoad"
  /\ shop' = [shop EXCEPT !.products = data, !.loading = FALSE]
  /\ net' = Drop(net, i)
  /\ last' = Last("shopLoadDone", "", "")
  /\ ghost' = IF ghost.track = "loads" /\ IssuedLast(ghost, net, i)
               THEN [ghost EXCEPT !.latest = [status |-> "arrived", data |-> data]]
               ELSE ghost
  /\ UNCHANGED <<variant, storage, token, user, auth, tab, items, adm, lines, sums, dash>>
  /\ Render

\* Shop.load when fetch or res.json() rejects: the function throws at its
\* await, before setProducts and setLoading(false).
ShopLoadRejected(i) ==
  /\ i \in 1..Len(net)
  /\ net[i].op = "shopLoad"
  /\ net' = Drop(net, i)
  /\ last' = Last("shopLoadRejected", "", "")
  /\ ghost' = IF ghost.track = "loads" /\ IssuedLast(ghost, net, i)
               THEN [ghost EXCEPT !.latest.status = "rejected"]
               ELSE ghost
  /\ UNCHANGED <<variant, storage, token, user, auth, tab, shop, items, adm, lines, sums, dash>>
  /\ Render

IndexOf(a, pid) ==
  LET hits == {i \in 1..Len(a) : a[i].product_id = pid}
  IN  IF hits = {} THEN 0 ELSE CHOOSE i \in hits : \A j \in hits : i <= j

AddLineAlwaysPushed(existing, pid) == Append(existing, [product_id |-> pid, qty |-> 1])

\* The array addToCart writes back.
AddLine(existing, pid) ==
  LET idx == IndexOf(existing, pid)
  IN  IF idx > 0 THEN [existing EXCEPT ![idx].qty = @ + 1]
      ELSE Append(existing, [product_id |-> pid, qty |-> 1])

addToCart(pid) ==
  /\ "Add to cart" \in view
  /\ \E k \in 1..Len(shop.products) : shop.products[k] = pid
  /\ \A k \in 1..Len(ReadCart(storage)) : ReadCart(storage)[k].qty < MaxQty
  /\ storage' = lsSetItem(storage, "cart", StringifyCart(AddLine(ReadCart(storage), pid)))
  /\ last' = Last("addToCart", pid, "Added to cart")
  /\ ghost' = IF ghost.track = "adds" THEN [ghost EXCEPT !.adds[pid] = @ + 1] ELSE ghost
  /\ UNCHANGED <<variant, token, user, auth, tab, shop, items, adm, net, lines, sums, dash>>
  /\ Render

----------------------------------------------------------------------------
(* Cart *)

Max(a, b) == IF a >= b THEN a ELSE b

QtyChangedUnclamped(it, pid, delta) ==
  [i \in 1..Len(it) |->
     IF it[i].product_id = pid THEN [it[i] EXCEPT !.qty = it[i].qty + delta] ELSE it[i]]

\* items.map(i => i.product_id===product_id ? {...i, qty: Math.max(1, i.qty + delta)} : i)
QtyChanged(it, pid, delta) ==
  [i \in 1..Len(it) |->
     IF it[i].product_id = pid THEN [it[i] EXCEPT !.qty = Max(1, it[i].qty + delta)] ELSE it[i]]

\* items.filter(i => i.product_id !== product_id)
Without(it, pid) == SelectSeq(it, LAMBDA l : l.product_id # pid)

CartWrittenMerged(st, it) ==
  lsSetItem(st, "cart",
            StringifyCart(it \o SelectSeq(ReadCart(st), LAMBDA l : IndexOf(it, l.product_id) = 0)))

\* localStorage.setItem('cart', JSON.stringify(next))
CartWritten(st, it) == lsSetItem(st, "cart", StringifyCart(it))

\* The products with a line in the persisted cart and none in the list it.
LostBy(st, it) ==
  {p \in Products : IndexOf(ReadCart(st), p) > 0 /\ IndexOf(it, p) = 0}

updateQty(pid, delta) ==
  /\ delta \in {-1, 1}
  /\ (IF delta = 1 THEN "+" ELSE "-") \in view
  /\ IndexOf(items, pid) > 0
  /\ items[IndexOf(items, pid)].qty + delta <= MaxQty
  /\ items' = QtyChanged(items, pid, delta)
  /\ storage' = CartWritten(storage, items')
  /\ last' = Last("updateQty", <<pid, delta, items[IndexOf(items, pid)].qty>>, "")
  /\ ghost' = IF ghost.track = "peer" THEN [ghost EXCEPT !.lost = LostBy(storage, items')] ELSE ghost
  /\ UNCHANGED <<variant, token, user, auth, tab, shop, adm, net, lines, sums, dash>>
  /\ Render

removeItem(pid) ==
  /\ "Remove" \in view
  /\ IndexOf(items, pid) > 0
  /\ items' = Without(items, pid)
  /\ storage' = CartWritten(storage, items')
  /\ last' = Last("removeItem", pid, "")
  /\ ghost' = IF ghost.track = "peer" THEN [ghost EXCEPT !.lost = LostBy(storage, items')] ELSE ghost
  /\ UNCHANGED <<variant, token, user, auth, tab, shop, adm, net, lines, sums, dash>>
  /\ Render

\* items.map(i => ({ product_id: i.product_id, qty: i.qty }))
OrderBody(it) == [i \in 1..Len(it) |-> [product_id |-> it[i].product_id, qty |-> it[i].qty]]

PlaceOrderReturnsWhilePending(it, s) ==
  it = <<>> \/ \E i \in 1..Len(s) : s[i].op \in {"order", "pay"}

\* if (items.length===0) return
PlaceOrderReturns(it, s) == it = <<>>

\* placeOrder up to its first await: POST /orders is out.
placeOrder ==
  /\ "Place order" \in view
  /\ ~PlaceOrderReturns(items, net)
  /\ Len(net) < MaxInFlight
  /\ ghost.track = "orders" => Len(ghost.posted) < MaxOrders
  /\ net' = Append(net, Req("order", TRUE))
  /\ last' = Sending(Last("placeOrder", "", ""), Endpoints("order", variant))
  /\ ghost' = IF ghost.track = "orders"
               THEN [ghost EXCEPT !.posted = Append(@, OrderBody(items))]
               ELSE ghost
  /\ UNCHANGED <<variant, storage, token, user, auth, tab, shop, items, adm, lines, sums, dash>>
  /\ Render

AfterOrderUnchecked(r) == IF r \in {"ok", "fail"} THEN "pay" ELSE "stop"

\* What placeOrder does with the response to POST /orders:
\* "pay" (POST /payments/checkout goes out) or "stop".
AfterOrder(r) == IF r = "ok" THEN "pay" ELSE "stop"

\* placeOrder from the response to POST /orders to its next await or return.
\* r: "ok" (res.ok), "fail" (a non-success status), "reject" (fetch rejected).
OrderResp(i, r) ==
  /\ i \in 1..Len(net)
  /\ net[i].op = "order"
  /\ r \in Outcomes
  /\ net' = IF AfterOrder(r) = "pay"
            THEN [net EXCEPT ![i] = Req("pay", net[i].live)]
            ELSE Drop(net, i)
  /\ last' = Sending(Last("orderResp", r, IF r = "fail" THEN "Order failed" ELSE ""),
                      IF AfterOrder(r) = "pay" THEN Endpoints("pay", variant) ELSE {})
  /\ ghost' = IF ghost.track = "orders" /\ r = "ok" THEN [ghost EXCEPT !.orders = @ + 1] ELSE ghost
  /\ UNCHANGED <<variant, storage, token, user, auth, tab, shop, items, adm, lines, sums, dash>>
  /\ Render

\* What placeOrder does with the response to POST /payments/checkout.
AfterPay(r) == IF r = "ok" THEN "clear" ELSE "stop"

\* placeOrder from the response to POST /payments/checkout to its return.
\* setItems([]) reaches the Cart instance that started the invocation; React
\* ignores it once that instance is unmounted.
PayResp(i, r) ==
  /\ i \in 1..Len(net)
  /\ net[i].op = "pay"
  /\ r \in Outcomes
  /\ IF AfterPay(r) = "clear"
     THEN /\ storage' = lsRemoveItem(storage, "cart")
          /\ items' = IF net[i].live THEN <<>> ELSE items
     ELSE UNCHANGED <<storage, items>>
  /\ net' = Drop(net, i)
  /\ last' = Last("payResp", <<r, net[i].live>>,
                  CASE r = "ok" -> "Order placed and paid successfully!"
                    [] r = "fail" -> "Payment failed"
                    [] OTHER -> "")
  /\ ghost' = IF ghost.track = "orders" /\ r = "ok" THEN [ghost EXCEPT !.payments = @ + 1] ELSE ghost
  /\ UNCHANGED <<variant, token, user, auth, tab, shop, adm, lines, sums, dash>>
  /\ Render

----------------------------------------------------------------------------
(* AdminPanel *)

SetAdminTab(t) ==
  /\ "AdminTabs" \in view
  /\ t \in AdminTabs(variant)
  /\ t # adm.tab
  /\ adm' = [adm EXCEPT !.tab = t]
  /\ last' = Last("setAdminTab", t, "")
  /\ UNCHANGED <<variant, storage, token, user, auth, tab, shop, items, net, lines, sums, dash, ghost>>
  /\ Render

----------------------------------------------------------------------------
(* Grouped loads: Dashboard.load of variant 1, AdminPanel.load *)

\* One fetch of the group resolves, with whatever status: load never looks
\* at res.ok.  When it was the last one, Promise.all resolves and load goes
\* on to await the json() of its first response.
FetchResolved(i) ==
  /\ i \in 1..Len(net)
  /\ net[i].op \in GroupLoads
  /\ net[i].left > 0
  /\ net' = [net EXCEPT ![i].left = @ - 1]
  /\ last' = Last("fetchResolved", net[i].op, "")
  /\ UNCHANGED <<variant, storage, token, user, auth, tab, shop, items, adm, lines, sums, dash, ghost>>
  /\ Render

\* One fetch of the group rejects: Promise.all rejects, load throws at its
\* await (and so does a handler awaiting load); what the other fetches of
\* the group bring is dropped.
FetchRejected(i) ==
  /\ i \in 1..Len(net)
  /\ net[i].op \in GroupLoads
  /\ net[i].left > 0
  /\ net' = Drop(net, i)
  /\ last' = Last("fetchRejected", net[i].op, "")
  /\ UNCHANGED <<variant, storage, token, user, auth, tab, shop, items, adm, lines, sums, dash, ghost>>
  /\ Render

\* setX(await x.json()) for the response number step: the list state is set
\* (React ignores it on an unmounted component), then load awaits the next
\* json() or returns.  Dashboard.pay alerts when its load has returned.
JsonResolved(i, data) ==
  /\ i \in 1..Len(net)
  /\ net[i].op \in GroupLoads
  /\ Joined(net[i])
  /\ LET r == net[i]
         name == GroupOf(r.op, variant)[r.step]
         done == r.step = Len(GroupOf(r.op, variant))
     IN  /\ adm' = IF r.op = "adminLoad" /\ r.live THEN [adm EXCEPT !.lists[name] = data] ELSE adm
         /\ dash' = IF r.op = "dashLoad" /\ r.live THEN [dash EXCEPT ![name] = data] ELSE dash
         /\ net' = IF done THEN Drop(net, i) ELSE [net EXCEPT ![i].step = @ + 1]
         /\ last' = Last("jsonResolved", <<r.op, r.step>>,
                         IF done /\ r.next = "alert" THEN "Payment successful" ELSE "")
  /\ UNCHANGED <<variant, storage, token, user, auth, tab, shop, items, lines, sums, ghost>>
  /\ Render

\* json() rejects (the body is not JSON): load throws there; the lists it
\* has set already stay set.
JsonRejected(i) ==
  /\ i \in 1..Len(net)
  /\ net[i].op \in GroupLoads
  /\ Joined(net[i])
  /\ net' = Drop(net, i)
  /\ last' = Last("jsonRejected", <<net[i].op, net[i].step>>, "")
  /\ UNCHANGED <<variant, storage, token, user, auth, tab, shop, items, adm, lines, sums, dash, ghost>>
  /\ Render

----------------------------------------------------------------------------
(* Loads of one fetch: Services.load, Account.load, Recordings' effect *)

SimpleLoads == {"servicesLoad", "accountLoad", "recLoad"}

\* The list state each of them sets.
ListOf(op) ==
  CASE op = "servicesLoad" -> "services"
    [] op = "accountLoad" -> "sub"
    [] OTHER -> "recordings"

\* fetch resolved and json() resolved: the list state is set.
LoadResolved(i, data) ==
  /\ i \in 1..Len(net)
  /\ net[i].op \in SimpleLoads
  /\ dash' = [dash EXCEPT ![ListOf(net[i].op)] = data]
  /\ net' = Drop(net, i)
  /\ last' = Last("loadResolved", net[i].op, "")
  /\ UNCHANGED <<variant, storage, token, user, auth, tab, shop, items, adm, lines, sums, ghost>>
  /\ Render

\* fetch or json() rejected: the load throws, nothing is set.
LoadRejected(i) ==
  /\ i \in 1..Len(net)
  /\ net[i].op \in SimpleLoads
  /\ net' = Drop(net, i)
  /\ last' = Last("loadRejected", net[i].op, "")
  /\ UNCHANGED <<variant, storage, token, user, auth, tab, shop, items, adm, lines, sums, dash, ghost>>
  /\ Render

----------------------------------------------------------------------------
(* Mutating handlers of the panels *)

\* The button of each handler.
Control(op) ==
  CASE op = "createService" -> "Book service"
    [] op = "dashPay" -> "Pay $19.99"
    [] op = "addCamera" -> "Add"
    [] op = "sendAlert" -> "Send Alert"
    [] op = "book" -> "Book installation"
    [] op = "changePlan" -> "ChangePlan"
    [] op = "createProduct" -> "Create"
    [] op = "deleteProduct" -> "Delete"
    [] OTHER -> "UpdateOrderStatus"

\* A handler up to its await: its request is out.  (createService and book
\* first prompt for an address; a cancelled prompt returns at once.)
Mutate(op) ==
  /\ Control(op) \in view
  /\ Len(net) < MaxInFlight
  /\ net' = Append(net, Req(op, TRUE))
  /\ last' = Sending(Last(op, "", ""), Endpoints(op, variant))
  /\ UNCHANGED <<variant, storage, token, user, auth, tab, shop, items, adm, lines, sums, dash, ghost>>
  /\ Render

createService == Mutate("createService")

pay == Mutate("dashPay")

add == Mutate("addCamera")

sendAlert == Mutate("sendAlert")

book == Mutate("book")

changePlan == Mutate("changePlan")

createProduct == Mutate("createProduct")

deleteProduct == Mutate("deleteProduct")

updateOrderStatus == Mutate("updateOrderStatus")

\* The load routine a handler calls after its request.
ReloadOf(op) ==
  CASE op \in {"createService", "dashPay", "addCamera"} -> "dashLoad"
    [] op = "book" -> "servicesLoad"
    [] op = "changePlan" -> "accountLoad"
    [] op \in {"createProduct", "deleteProduct", "updateOrderStatus"} -> "adminLoad"
    [] OTHER -> ""

\* What a handler does once its request has settled: the load it calls
\* ("": none) and the text it alerts at once.  r: "ok" (res.ok), "fail" (a
\* non-success status), "reject" (fetch rejected: the handler throws).
\* Only createProduct looks at res.ok; sendAlert calls no load.
AfterMutation(op, r) ==
  CASE r = "reject" -> [load |-> "", alert |-> ""]
    [] op = "createProduct" /\ r = "fail" -> [load |-> "", alert |-> "Failed to create product"]
    [] op = "sendAlert" -> [load |-> "", alert |-> "Alert sent"]
    [] OTHER -> [load |-> ReloadOf(op), alert |-> ""]

\* The continuation a handler starts by calling load: the load runs in the
\* closure of the handler, so it belongs to the component instance the
\* handler belongs to, mounted or not.
Reloading(op, live, v) ==
  IF op = "" THEN <<>>
  ELSE IF op \in GroupLoads
       THEN << Load(op, live, v, "") >>
       ELSE << Req(op, live) >>

\* A handler from the response to its request to its next await or return.
MutationResp(i, r) ==
  /\ i \in 1..Len(net)
  /\ net[i].op \in Mutations
  /\ r \in Outcomes
  /\ LET m == net[i]
         a == AfterMutation(m.op, r)
         started == IF m.op = "dashPay" /\ a.load # ""
                    THEN << Load(a.load, m.live, variant, "alert") >>
                    ELSE Reloading(a.load, m.live, variant)
     IN  /\ net' = Drop(net, i) \o SelectSeq(started, LAMBDA x : x.live \/ OutlivesUnmount(x))
         /\ last' = Sending(Last("mutationResp", <<m.op, r, m.live>>, a.alert),
                            EndpointsOf(started, variant))
  /\ UNCHANGED <<variant, storage, token, user, auth, tab, shop, items, adm, lines, sums, dash, ghost>>
  /\ Render

----------------------------------------------------------------------------
(* The client *)

Catalogs == { <<>>, <<"p1">>, <<"p1", "p2">> }

\* The most continuations in flight: Dashboard's own mount loads come on
\* top of what was in flight.
MaxNet == MaxInFlight + 2

\* Authentication, tabs, shop, cart, checkout and the admin panel's load.
Next ==
  \/ ToggleMode
  \/ Submit
  \/ \E i \in 1..MaxNet, data \in Accounts : AuthOk(i, data)
  \/ \E i \in 1..MaxNet : AuthFail(i)
  \/ \E i \in 1..MaxNet : AuthNetErr(i)
  \/ logout
  \/ Reload
  \/ \E t \in Tabs(variant) : SetTab(t)
  \/ \E i \in 1..MaxNet, data \in Catalogs : ShopLoadDone(i, data)
  \/ \E p \in Products : addToCart(p)
  \/ \E p \in Products, d \in {-1, 1} : updateQty(p, d)
  \/ \E p \in Products : removeItem(p)
  \/ placeOrder
  \/ \E i \in 1..MaxNet, r \in Outcomes : OrderResp(i, r)
  \/ \E i \in 1..MaxNet, r \in Outcomes : PayResp(i, r)
  \/ \E t \in AdminTabs(variant) : SetAdminTab(t)
  \/ \E i \in 1..MaxNet : FetchResolved(i) /\ net[i].op = "adminLoad"
  \/ \E i \in 1..MaxNet : FetchRejected(i) /\ net[i].op = "adminLoad"
  \/ \E i \in 1..MaxNet, data \in ListVals : JsonResolved(i, data) /\ net[i].op = "adminLoad"
  \/ \E i \in 1..MaxNet : JsonRejected(i) /\ net[i].op = "adminLoad"

Spec == Init /\ [][Next]_vars

----------------------------------------------------------------------------
(* Shop on its own: a returning customer fills the cart *)

InitShop == Visit(2, SessionOf("bob"), "adds")

NextShop ==
  \/ Reload
  \/ \E t \in Tabs(variant) : SetTab(t)
  \/ \E i \in 1..MaxNet, data \in Catalogs : ShopLoadDone(i, data)
  \/ \E p \in Products : addToCart(p)

SpecShop == InitShop /\ [][NextShop]_vars

----------------------------------------------------------------------------
(* Shop's search box, category select and Filter button *)

InitFilter == Visit(2, SessionOf("bob"), "loads")

NextFilter ==
  \/ \E t \in Tabs(variant) : SetTab(t)
  \/ \E text \in Queries : setQ(text)
  \/ \E c \in Categories : setCategory(c)
  \/ ShopLoad
  \/ \E i \in 1..MaxNet, data \in Catalogs : ShopLoadDone(i, data)
  \/ \E i \in 1..MaxNet : ShopLoadRejected(i)

SpecFilter == InitFilter /\ [][NextFilter]_vars

----------------------------------------------------------------------------
(* Checkout, with the history of what was posted and accepted *)

\* The customer comes back to a cart persisted by an earlier visit.
PersistedCarts ==
  { << [product_id |-> "p1", qty |-> 1] >>,
    << [product_id |-> "p1", qty |-> 1], [product_id |-> "p2", qty |-> 1] >> }

InitCheckout ==
  \E c \in PersistedCarts :
     Visit(2, lsSetItem(SessionOf("bob"), "cart", StringifyCart(c)), "orders")

NextCheckout ==
  \/ \E t \in Tabs(variant) : SetTab(t)
  \/ \E p \in Products, d \in {-1, 1} : updateQty(p, d)
  \/ \E p \in Products : removeItem(p)
  \/ placeOrder
  \/ \E i \in 1..MaxNet, r \in Outcomes : OrderResp(i, r)
  \/ \E i \in 1..MaxNet, r \in Outcomes : PayResp(i, r)

SpecCheckout == InitCheckout /\ [][NextCheckout]_vars

----------------------------------------------------------------------------
(* Two client instances on one localStorage *)

\* Another instance of the client (a second browser tab on the same origin,
\* showing Shop with product pid on screen) runs addToCart.
PeerAddToCart(pid) ==
  /\ variant = 2
  /\ \A k \in 1..Len(ReadCart(storage)) : ReadCart(storage)[k].qty < MaxQty
  /\ storage' = lsSetItem(storage, "cart", StringifyCart(AddLine(ReadCart(storage), pid)))
  /\ last' = Last("peerAddToCart", pid, "Added to cart")
  /\ UNCHANGED <<variant, token, user, auth, tab, shop, items, adm, net, lines, sums, dash, ghost>>
  /\ Render

InitPeer == Visit(2, SessionOf("bob"), "peer")

NextPeer ==
  \/ \E t \in Tabs(variant) : SetTab(t)
  \/ \E i \in 1..MaxNet, data \in Catalogs : ShopLoadDone(i, data)
  \/ \E p \in Products : addToCart(p)
  \/ \E p \in Products, d \in {-1, 1} : updateQty(p, d)
  \/ \E p \in Products : removeItem(p)
  \/ \E p \in Products : PeerAddToCart(p)

SpecPeer == InitPeer /\ [][NextPeer]_vars

----------------------------------------------------------------------------
(* The loads of the panels, in an admin's session *)

InitLoads == \E v \in {1, 2} : Visit(v, SessionOf("ann"), "none")

NextLoads ==
  \/ Reload
  \/ \E t \in Tabs(variant) : SetTab(t)
  \/ \E i \in 1..MaxNet : FetchResolved(i)
  \/ \E i \in 1..MaxNet : FetchRejected(i)
  \/ \E i \in 1..MaxNet, data \in ListVals : JsonResolved(i, data)
  \/ \E i \in 1..MaxNet : JsonRejected(i)
  \/ add
  \/ deleteProduct
  \/ \E i \in 1..MaxNet, r \in Outcomes : MutationResp(i, r)

SpecLoads == InitLoads /\ [][NextLoads]_vars

----------------------------------------------------------------------------
(* The panels of a customer's session and their mutating handlers *)

InitPanels == \E v \in {1, 2} : Visit(v, SessionOf("bob"), "none")

NextPanels ==
  \/ \E t \in Tabs(variant) : SetTab(t)
  \/ \E i \in 1..MaxNet : FetchResolved(i)
  \/ \E i \in 1..MaxNet : FetchRejected(i)
  \/ \E i \in 1..MaxNet, data \in ListVals : JsonResolved(i, data)
  \/ \E i \in 1..MaxNet : JsonRejected(i)
  \/ \E i \in 1..MaxNet, data \in ListVals : LoadResolved(i, data)
  \/ \E i \in 1..MaxNet : LoadRejected(i)
  \/ createService
  \/ pay
  \/ add
  \/ book
  \/ changePlan
  \/ \E i \in 1..MaxNet, r \in Outcomes : MutationResp(i, r)

SpecPanels == InitPanels /\ [][NextPanels]_vars

----------------------------------------------------------------------------
(* The admin panel and its mutating handlers, across sessions *)

NextAdmin ==
  \/ Submit
  \/ \E i \in 1..MaxNet, data \in Accounts : AuthOk(i, data)
  \/ logout
  \/ \E t \in Tabs(variant) : SetTab(t)
  \/ \E t \in AdminTabs(variant) : SetAdminTab(t)
  \/ \E i \in 1..MaxNet : FetchResolved(i) /\ net[i].op = "adminLoad"
  \/ \E i \in 1..MaxNet : FetchRejected(i) /\ net[i].op = "adminLoad"
  \/ \E i \in 1..MaxNet, data \in ListVals : JsonResolved(i, data) /\ net[i].op = "adminLoad"
  \/ \E i \in 1..MaxNet : JsonRejected(i) /\ net[i].op = "adminLoad"
  \/ sendAlert
  \/ createProduct
  \/ deleteProduct
  \/ updateOrderStatus
  \/ \E i \in 1..MaxNet, r \in Outcomes : MutationResp(i, r)

SpecAdmin == Init /\ [][NextAdmin]_vars

----------------------------------------------------------------------------
(* Cart pricing on its own: the cart lines change, the summary is rendered *)

MaxLines == 2
MaxLineQty == 2

\* Prices in hundredths, as the backend's JSON gives them: 0.50, 5.00,
\* 10.00, 19.99, 118.50
Prices == {50, 500, 1000, 1999, 11850}

PutLine(price, qty) ==
  /\ Len(lines) < MaxLines
  /\ lines' = Append(lines, [price |-> price, qty |-> qty])
  /\ sums' = CartSums(lines')
  /\ UNCHANGED <<variant, storage, token, user, auth, tab, shop, items, adm, net, view, last, dash, ghost>>

DropLine(i) ==
  /\ i \in 1..Len(lines)
  /\ lines' = Drop(lines, i)
  /\ sums' = CartSums(lines')
  /\ UNCHANGED <<variant, storage, token, user, auth, tab, shop, items, adm, net, view, last, dash, ghost>>

NextTotals ==
  \/ \E price \in Prices, qty \in 1..MaxLineQty : PutLine(price, qty)
  \/ \E i \in 1..MaxLines : DropLine(i)

SpecTotals == Init /\ [][NextTotals]_vars

----------------------------------------------------------------------------
(* Properties *)

OrderCount(s) == Cardinality({i \in 1..Len(s) : s[i].op = "order"})

PayCount(s) == Cardinality({i \in 1..Len(s) : s[i].op = "pay"})

CartMounted == variant = 2 /\ token # "" /\ tab = "cart"

Pids(a) == [i \in 1..Len(a) |-> a[i].product_id]

QtyFloor(a) == \A i \in 1..Len(a) : a[i].qty >= 1

\* C1: a step puts a payment request in flight only when it is the
\* continuation of a placeOrder invocation receiving a success response to its
\* own order request (the payment takes that invocation's place); an
\* invocation whose order request gets no success response ends there, and
\* no payment request goes out.
C1_PaymentOnlyAfterOrderSuccess ==
  [][ /\ PayCount(net') > PayCount(net) =>
           /\ last'.op = "orderResp"
           /\ last'.arg = "ok"
           /\ \E i \in 1..Len(net) :
                /\ net[i].op = "order"
                /\ net' = [net EXCEPT ![i] = Req("pay", net[i].live)]
      /\ (last'.op = "orderResp" /\ last'.arg # "ok") =>
           /\ PayCount(net') = PayCount(net)
           /\ OrderCount(net') = OrderCount(net) - 1
           /\ Len(net') = Len(net) - 1
    ]_vars

\* C1 witness: one invocation is awaiting its payment response, and another
\* has just ended on a non-success response to its order request.
C1_Witness ==
  /\ last.op = "orderResp"
  /\ last.arg = "fail"
  /\ PayCount(net) = 1
  /\ OrderCount(net) = 0

\* C2: as claimed: a non-success response to the order or the payment request
\* leaves the persisted cart and the items list as they were and alerts; a
\* success response to the payment removes the persisted cart and leaves the
\* items list of the Cart panel on screen empty.
C2_ClearedExactlyOnSuccess ==
  [][ /\ (last'.op = "orderResp" /\ last'.arg = "fail") =>
           (storage' = storage /\ items' = items /\ last'.alert # "")
      /\ (last'.op = "payResp" /\ last'.arg[1] = "fail") =>
           (storage' = storage /\ items' = items /\ last'.alert # "")
      /\ (last'.op = "payResp" /\ last'.arg[1] = "ok") =>
           ("cart" \notin DOMAIN storage' /\ (CartMounted' => items' = <<>>))
    ]_vars

\* C3: every line of the items list and of the persisted cart has qty >= 1
\* after every step; updateQty keeps every line in place, and updateQty(-1)
\* on a line of qty 1 leaves it at qty 1.
C3_QtyFloor ==
  [][ /\ QtyFloor(items')
      /\ QtyFloor(ReadCart(storage'))
      /\ last'.op = "updateQty" =>
           /\ Pids(items') = Pids(items)
           /\ ReadCart(storage') = items'
           /\ (last'.arg[2] = -1 /\ last'.arg[3] = 1) =>
                items'[IndexOf(items', last'.arg[1])].qty = 1
    ]_vars

\* C3 witness: updateQty(-1) has just run on a line of qty 1, and the line
\* is still in the cart.
C3_Witness ==
  /\ last.op = "updateQty"
  /\ last.arg[2] = -1
  /\ last.arg[3] = 1
  /\ IndexOf(items, last.arg[1]) > 0
  /\ Len(items) = 2

\* The exact subtotal of the lines, in hundredths
RECURSIVE ExactCents(_, _)
ExactCents(ls, n) == IF n = 0 THEN 0 ELSE ExactCents(ls, n - 1) + ls[n].price * ls[n].qty

Abs(x) == IF x < 0 THEN -x ELSE x

\* C4: the rendered subtotal is the exact sum of price*qty; the rendered tax
\* is a two-decimal value nearest to 7% of it (within half a hundredth); the
\* rendered total is subtotal plus tax; the lines [10 x 2, 5 x 1] give 25.00,
\* 1.75, 26.75 and the empty cart gives 0, 0, 0.
C4_CartArithmetic ==
  LET c == ExactCents(lines, Len(lines)) IN
  /\ sums.subtotal = c
  /\ Abs(100 * sums.tax - 7 * c) <= 50
  /\ sums.total = c + sums.tax
  /\ lines = << [price |-> 1000, qty |-> 2], [price |-> 500, qty |-> 1] >> =>
       sums = [subtotal |-> 2500, tax |-> 175, total |-> 2675]
  /\ lines = <<>> => sums = [subtotal |-> 0, tax |-> 0, total |-> 0]

\* C4 witness: the summary of the lines [10 x 2, 5 x 1] is on screen.
C4_Witness ==
  /\ lines = << [price |-> 1000, qty |-> 2], [price |-> 500, qty |-> 1] >>
  /\ sums.total = 2675

\* C5: a page load that follows a resolved login or register constructs
\* useAuth with the token and the user the session held, and sends no
\* login or register request.
C5_SessionReconstructed ==
  [][ (last.op = "authOk" /\ last'.op = "reload") =>
        /\ token' = token
        /\ user' = user
        /\ token' = InitToken(storage)
        /\ user' = InitUser(storage)
        /\ \A i \in 1..Len(net') : net'[i].op \notin {"login", "register"}
    ]_vars

\* C5 witness: a reloaded client that holds the session of a login.
C5_Witness ==
  /\ last.op = "reload"
  /\ token = "tkA"
  /\ user = [name |-> "ann", role |-> "admin"]

\* C6: the logout step leaves token empty, user null and no 'token' or
\* 'user' entry in storage, and puts no request in flight (what remains in
\* flight are the checkouts that were already); a page load that follows it
\* renders AuthScreen.
C6_LogoutClears ==
  [][ /\ last'.op = "logout" =>
           /\ token' = ""
           /\ user' = NullUser
           /\ "token" \notin DOMAIN storage'
           /\ "user" \notin DOMAIN storage'
           /\ OrderCount(net') = OrderCount(net)
           /\ PayCount(net') = PayCount(net)
           /\ Len(net') = OrderCount(net') + PayCount(net')
           /\ "AuthScreen" \in view'
      /\ (last.op = "logout" /\ last'.op = "reload") =>
           ("AuthScreen" \in view' /\ "Dashboard" \notin view')
    ]_vars

\* C6 witness: logout has just run on a client that had a session.
C6_Witness ==
  /\ last.op = "logout"
  /\ token = ""
  /\ DOMAIN storage \cap {"token", "user"} = {}
  /\ "AuthScreen" \in view

\* C7: AuthScreen is on screen exactly when the token is empty, and
\* Dashboard exactly when it is not.
C7_Routing ==
  /\ "AuthScreen" \in view <=> token = ""
  /\ "Dashboard" \in view <=> token # ""

\* C7 witness: no token, a cart still persisted, AuthScreen on screen.
C7_Witness ==
  /\ token = ""
  /\ "cart" \in DOMAIN storage
  /\ "AuthScreen" \in view

\* C8: the continuation of login (register) on a non-success response sets
\* the error to 'Invalid credentials' ('Registration failed') and loading to
\* false, changes neither the session nor storage, and leaves AuthScreen on
\* screen showing the message and an enabled submit button.
C8_AuthFailure ==
  [][ last'.op = "authFail" =>
        /\ auth'.error = (IF last'.arg = "login" THEN "Invalid credentials" ELSE "Registration failed")
        /\ auth'.loading = FALSE
        /\ UNCHANGED <<token, user, storage>>
        /\ "AuthScreen" \in view'
        /\ auth'.error \in view'
        /\ "Submit" \in view'
    ]_vars

\* C8 witness: a register request has just failed.
C8_Witness ==
  /\ last.op = "authFail"
  /\ last.arg = "register"
  /\ "Registration failed" \in view

\* C9: in every state the token equals the persisted 'token' entry (empty
\* when absent) and the user is the one the persisted 'user' entry holds
\* (null when absent).
C9_SessionInSync ==
  /\ IF "token" \in DOMAIN storage THEN storage["token"] = token ELSE token = ""
  /\ IF "user" \in DOMAIN storage THEN storage["user"] = StringifyUser(user) ELSE user = NullUser

\* C9 witness: a session is held and persisted.
C9_Witness ==
  /\ token = "tkB"
  /\ "token" \in DOMAIN storage
  /\ "user" \in DOMAIN storage

\* C10: in a session whose user is no admin, no admin control is on screen,
\* a mounted AdminPanel shows the notice, and AdminPanel renders only the
\* notice for every tab and every value of its lists.
C10_AdminGate ==
  (token # "" /\ user.role # "admin") =>
     /\ view \cap AdminControls = {}
     /\ AdminMounted(variant, token, tab) => "AdminNotice" \in view
     /\ \A t \in AdminTabs(variant),
           ls \in [users : ListVals, products : ListVals, orders : ListVals, svcs : ListVals] :
          AdminPanelView(variant, user, [tab |-> t, lists |-> ls]) = {"AdminNotice"}

\* C10 witness: a non-admin session with the AdminPanel mounted.
C10_Witness ==
  /\ token # ""
  /\ user.role = "user"
  /\ AdminMounted(variant, token, tab)
  /\ "AdminNotice" \in view

\* Whether a load started by a mounted panel is still awaited.
LoadInFlight(ops) == \E i \in 1..Len(net) : net[i].op \in ops /\ net[i].live

\* The list an AdminPanel tab shows ("": the alerts form shows none).
AdminListOf(t) ==
  CASE t \in {"users", "customers"} -> "users"
    [] t \in {"cameras", "products"} -> "products"
    [] t = "orders" -> "orders"
    [] t = "services" -> "svcs"
    [] OTHER -> ""

\* C11: as claimed: whenever a list view is on screen, its load is over and
\* its list is empty, the view renders one of the placeholder texts.  The
\* list views are the live, recordings, alerts and services tabs of variant
\* 1, the shop, cart and services tabs of variant 2, and the list tabs of
\* AdminPanel in an admin's session.
C11_EmptyPlaceholder ==
  token # "" =>
    /\ (variant = 1 /\ ~LoadInFlight({"dashLoad", "recLoad"})) =>
         /\ (tab = "live" /\ dash.cameras = <<>>) => TabView(tab, dash) \cap Placeholders # {}
         /\ (tab = "recordings" /\ dash.recordings = <<>>) => TabView(tab, dash) \cap Placeholders # {}
         /\ (tab = "alerts" /\ dash.alerts = <<>>) => TabView(tab, dash) \cap Placeholders # {}
         /\ (tab = "services" /\ dash.services = <<>>) => TabView(tab, dash) \cap Placeholders # {}
    /\ (variant = 2 /\ ~LoadInFlight({"shopLoad", "servicesLoad"})) =>
         /\ (tab = "shop" /\ shop.products = <<>>) => view \cap Placeholders # {}
         /\ (tab = "cart" /\ items = <<>>) => view \cap Placeholders # {}
         /\ (tab = "services" /\ dash.services = <<>>) => view \cap Placeholders # {}
    /\ ( /\ AdminMounted(variant, token, tab)
         /\ IsAdmin(user)
         /\ ~LoadInFlight({"adminLoad"})
         /\ AdminListOf(adm.tab) # ""
         /\ adm.lists[AdminListOf(adm.tab)] = <<>> ) =>
         AdminPanelView(variant, user, adm) \cap Placeholders # {}

\* The load routine of the panel that owns a mutating handler.
OwnerLoad(op) ==
  CASE op \in {"createService", "dashPay", "addCamera"} -> "dashLoad"
    [] op = "book" -> "servicesLoad"
    [] op = "changePlan" -> "accountLoad"
    [] OTHER -> "adminLoad"

\* C12: as claimed: the continuation of every mutating handler whose request
\* got a success response starts the load of the panel that owns the handler
\* (it sends that load's requests in the same step, and a mounted panel then
\* awaits them), and a list state of a panel changes only when a load sets
\* it or when its panel is mounted anew.
C12_MutationThenReload ==
  [][ /\ (last'.op = "mutationResp" /\ last'.arg[2] = "ok") =>
           /\ Endpoints(OwnerLoad(last'.arg[1]), variant) \subseteq last'.sent
           /\ last'.arg[3] => \E i \in 1..Len(net') :
                                  net'[i].op = OwnerLoad(last'.arg[1]) /\ net'[i].live
      /\ (adm'.lists # adm.lists \/ dash' # dash) =>
           last'.op \in {"jsonResolved", "loadResolved", "setTab", "authOk", "logout", "reload"}
    ]_vars

\* The texts with which the client reports a failure, and a success.
FailureTexts == {"Failed to create product", "Order failed", "Payment failed"}

SuccessTexts == {"Payment successful", "Alert sent", "Order placed and paid successfully!"}

\* The loads whose return makes Dashboard.pay alert 'Payment successful'.
PayAlertsPending(s) ==
  Cardinality({i \in 1..Len(s) : s[i].op \in GroupLoads /\ s[i].next = "alert"})

\* C13: as claimed: the continuation of a mutating handler (and of the
\* checkout) whose request got a non-success status alerts a failure text in
\* that step, and starts nothing that will report a success.
C13_FailureSurfaced ==
  [][ /\ (last'.op = "mutationResp" /\ last'.arg[2] = "fail") =>
           /\ last'.alert \in FailureTexts
           /\ PayAlertsPending(net') <= PayAlertsPending(net)
      /\ (last'.op = "orderResp" /\ last'.arg = "fail") => last'.alert \in FailureTexts
      /\ (last'.op = "payResp" /\ last'.arg[1] = "fail") => last'.alert \in FailureTexts
    ]_vars

\* C14: an addToCart(p) step rewrites the persisted cart so that, when a
\* line of p existed, that line's qty is one more and every line is otherwise
\* as it was, and, when none existed, one line of p with qty 1 is appended;
\* and after any number of addToCart calls from the empty cart the persisted
\* cart has one line for every product added, none for the others, no two
\* lines of one product, and each line's qty is the number of calls for it.
C14_AddToCart ==
  [][ LET old == ReadCart(storage)
          new == ReadCart(storage')
      IN  /\ last'.op = "addToCart" =>
               IF IndexOf(old, last'.arg) > 0
               THEN /\ Len(new) = Len(old)
                    /\ \A i \in 1..Len(old) :
                         new[i] = IF i = IndexOf(old, last'.arg)
                                  THEN [old[i] EXCEPT !.qty = old[i].qty + 1]
                                  ELSE old[i]
               ELSE new = Append(old, [product_id |-> last'.arg, qty |-> 1])
          /\ \A i, j \in 1..Len(new) : new[i].product_id = new[j].product_id => i = j
          /\ \A i \in 1..Len(new) : new[i].qty = ghost'.adds[new[i].product_id]
          /\ \A p \in Products : ghost'.adds[p] > 0 => IndexOf(new, p) > 0
    ]_vars

\* C14 witness: p2 was added once, then p1 twice.
C14_Witness ==
  /\ last.op = "addToCart"
  /\ ghost.adds = [p \in Products |-> IF p = "p1" THEN 2 ELSE 1]
  /\ ReadCart(storage) = << [product_id |-> "p2", qty |-> 1], [product_id |-> "p1", qty |-> 2] >>

\* The grouped loads of op that have been started and had no fetch resolved.
FreshLoads(s, op, v) ==
  Cardinality({i \in 1..Len(s) : s[i].op = op /\ s[i].left = Len(GroupOf(op, v))})

\* The list states of the two groups.
GroupLists(a, d) == << a.lists, d.cameras, d.alerts, d.services, d.sub >>

\* C15: a step that starts a grouped load sends every request of the group;
\* a load that still waits for one of them has set no list; a step of a load
\* changes a list state only when all its fetches have resolved (it is then
\* a json step of that load); and the step in which a fetch of the group
\* fails (the fetch rejects) changes no list state and ends the load, which
\* had set none.
C15_GroupedLoad ==
  [][ /\ \A op \in GroupLoads :
           FreshLoads(net', op, variant) > FreshLoads(net, op, variant) =>
              Endpoints(op, variant) \subseteq last'.sent
      /\ \A i \in 1..Len(net') :
           (net'[i].op \in GroupLoads /\ net'[i].left > 0) => net'[i].step = 1
      /\ (GroupLists(adm', dash') # GroupLists(adm, dash) /\ last'.op \notin {"setTab", "reload"}) =>
           /\ last'.op = "jsonResolved"
           /\ \E i \in 1..Len(net) :
                /\ net[i].op = last'.arg[1]
                /\ net[i].step = last'.arg[2]
                /\ net[i].left = 0
      /\ last'.op = "fetchRejected" =>
           /\ GroupLists(adm', dash') = GroupLists(adm, dash)
           /\ \E i \in 1..Len(net) :
                /\ net[i].op = last'.arg
                /\ net[i].left > 0
                /\ net[i].step = 1
                /\ net' = Drop(net, i)
    ]_vars

\* C15 witness: variant 1, a first Dashboard.load has set its four lists;
\* a camera was added, and a fetch of the reload has just failed: the lists
\* are what the first load set.
C15_Witness ==
  /\ variant = 1
  /\ last.op = "fetchRejected"
  /\ last.arg = "dashLoad"
  /\ dash.cameras = <<"r1">>
  /\ dash.alerts = <<>>
  /\ dash.services = <<"r1">>
  /\ dash.sub = <<"r1">>
  /\ net = <<>>

----------------------------------------------------------------------------
(* C16 *)

\* C16: the persisted cart is written without coordination between client
\* instances: a step of updateQty or removeItem writes the Cart panel's own
\* list as the whole persisted array, so a line that another instance added
\* to the persisted cart after this panel was mounted, and that the panel's
\* list does not hold, is no longer in the persisted cart after the step.
C16_LastWriterWins ==
  [][ last'.op \in {"updateQty", "removeItem"}
      => /\ ReadCart(storage') = items'
         /\ \A p \in Products :
              (IndexOf(ReadCart(storage), p) > 0 /\ IndexOf(items, p) = 0)
                => IndexOf(ReadCart(storage'), p) = 0 ]_vars

\* C16 witness: the Cart panel holds p1 alone, another instance has added
\* p2, and the panel's updateQty on p1 has just written the cart: p2 is lost.
C16_Witness ==
  /\ last.op = "updateQty"
  /\ last.arg[1] = "p1"
  /\ ghost.lost = {"p2"}
  /\ IndexOf(ReadCart(storage), "p2") = 0
  /\ IndexOf(ReadCart(storage), "p1") > 0

----------------------------------------------------------------------------
(* C17 *)

Pending(s) == \E i \in 1..Len(s) : s[i].op \in {"order", "pay"}

\* C17: checkout requests are not deduplicated. Whenever the Cart panel
\* shows a non-empty list, placeOrder can run, an invocation still awaiting
\* its order or payment response or not (up to the bounds on requests in
\* flight and on orders); each run sends one more POST /orders whose body
\* is the panel's lines at that moment; and every invocation goes on by
\* itself: success responses never outnumber the requests sent.
C17_NoDedup ==
  /\ [](("Place order" \in view /\ items # <<>> /\ Len(net) < MaxInFlight
           /\ Len(ghost.posted) < MaxOrders)
          => ENABLED placeOrder)
  /\ [](ghost.payments <= ghost.orders /\ ghost.orders <= Len(ghost.posted))
  /\ [][ last'.op = "placeOrder"
         => /\ items # <<>>
            /\ "POST /orders" \in last'.sent
            /\ net' = Append(net, Req("order", TRUE))
            /\ ghost'.posted = Append(ghost.posted, OrderBody(items)) ]_vars

\* C17 witness: one cart, two POST /orders with the same lines, both
\* invocations succeeded: two orders and two payments.
C17_Witness ==
  /\ Len(ghost.posted) = 2
  /\ ghost.posted[1] = ghost.posted[2]
  /\ ghost.posted[1] = <<[product_id |-> "p1", qty |-> 1]>>
  /\ ghost.orders = 2
  /\ ghost.payments = 2
  /\ last.op = "payResp"

----------------------------------------------------------------------------
(* C18 *)

\* C18: in one client instance, whenever the Cart panel is mounted its list
\* equals the persisted cart (an absent 'cart' entry read as the empty list).
C18_CartMatchesStorage == CartMounted => items = ReadCart(storage)

----------------------------------------------------------------------------
(* C19 *)

SameCartEntry(st1, st2) ==
  /\ "cart" \in DOMAIN st1 <=> "cart" \in DOMAIN st2
  /\ "cart" \in DOMAIN st1 => st1["cart"] = st2["cart"]

\* C19: a step of logout, of login or of register (the submission, and the
\* success, failure or network-error continuation) leaves the persisted
\* 'cart' entry as it was; and the Cart panel, when the cart tab is opened,
\* starts from that persisted cart, whoever is logged in.
C19_CartSurvivesSession ==
  [][ /\ last'.op \in {"logout", "submit", "authOk", "authFail", "authNetErr"}
          => SameCartEntry(storage, storage')
      /\ (last'.op = "setTab" /\ last'.arg = "cart" /\ tab # "cart")
          => (storage' = storage /\ items' = ReadCart(storage)) ]_vars

\* C19 witness: bob has just logged in on a client whose storage holds a cart
\* built in an earlier session.
C19_Witness ==
  /\ last.op = "authOk"
  /\ token = "tkB"
  /\ ReadCart(storage) = <<[product_id |-> "p1", qty |-> 1]>>

----------------------------------------------------------------------------
(* C20 *)

AdminEndpoints ==
  { "GET /admin/users", "GET /admin/cameras", "GET /admin/orders", "GET /admin/services",
    "POST /admin/products", "DELETE /admin/products/:id", "PATCH /admin/orders/:id",
    "POST /admin/alerts" }

\* C20: in a session whose user's role is not 'admin', no step of the client
\* sends a request to an /admin/ endpoint.
C20_NoAdminRequests ==
  [][ (token' # "" /\ user'.role # "admin") => last'.sent \cap AdminEndpoints = {} ]_vars

----------------------------------------------------------------------------
(* C21 *)

ShopMounted == variant = 2 /\ token # "" /\ tab = "shop"

\* The steps that mount Shop or click Filter.
ShopLoadSteps == {"init", "authOk", "reload", "setTab", "shopLoad"}

\* A change of the search text or the category sends nothing, and GET
\* /products goes out only in a step that mounts Shop or clicks Filter.
C21_RequestsOnlyOnMountAndFilter ==
  /\ last.op \in {"setQ", "setCategory"} => last.sent = {}
  /\ "GET /products" \in last.sent => last.op \in ShopLoadSteps

\* Once no Shop load is in flight and the load issued last has been
\* answered, Shop shows that answer and the loading flag is false.
C21_ShowsLatestLoad ==
  (ShopMounted /\ ~LoadInFlight({"shopLoad"}) /\ ghost.latest.status = "arrived")
    => (shop.products = ghost.latest.data /\ ~shop.loading)

\* The loading flag is true whenever a Shop load is in flight.
C21_LoadingWhileInFlight ==
  (ShopMounted /\ LoadInFlight({"shopLoad"})) => shop.loading

\* C21: in Shop, a change of the search text or of the category sends no
\* request (a product request goes out only on mount and on the Filter
\* button); once every product load issued has completed, the list shown is
\* the response to the load issued last and the loading flag is false; and
\* the loading flag is true whenever a product load is still in flight.
C21_ShopLoads ==
  /\ C21_RequestsOnlyOnMountAndFilter
  /\ C21_ShowsLatestLoad
  /\ C21_LoadingWhileInFlight

====
